---- MODULE Spec2Model ----
(***************************************************************************)
(* Model of the two Lightroom catalog maintenance scripts:                 *)
(*   library_folders.py  (table AgLibraryRootFolder)                       *)
(*   move_collection.py  (table AgLibraryPublishedCollection)              *)
(*                                                                         *)
(* Conventions.                                                            *)
(*  - A value that Python may hold as None (an SQL NULL, an omitted        *)
(*    optional argument) is a sequence of length at most one: <<>> is      *)
(*    None and <<v>> is the value v.                                       *)
(*  - Names and filesystem paths are atomic strings: the scripts only      *)
(*    compare them, test them for truth and probe them on the filesystem.  *)
(*  - A genealogy is the sequence of its characters, because the script    *)
(*    splits it on "/".  The token "None" stands for the four characters   *)
(*    Python prints for None; it contains no "/".                          *)
(*  - The record store itself is assumed to work: sqlite3.Error is not     *)
(*    modelled, so every statement that is executed is also committed.     *)
(***************************************************************************)
EXTENDS Integers, Sequences, FiniteSets

VARIABLES rootFolders, collections, fs, call, outcome, preRootFolders, preCollections

vars == <<rootFolders, collections, fs, call, outcome, preRootFolders, preCollections>>

\* ------------------------------------------------------------------ bounds
MaxGenealogyLen == 5

\* ------------------------------------------------------- optional values
None == <<>>

Some(v) == <<v>>

\* Python truth of an optional string: None and "" are false.
Truthy(o) == o # None /\ o[1] # ""

\* Python truth of an optional genealogy (a character sequence).
TruthyText(o) == o # None /\ o[1] # <<>>

\* ------------------------------------------------------------ text helpers
RECURSIVE FirstSlash(_, _)
FirstSlash(s, i) ==
    IF i > Len(s) THEN 0
    ELSE IF s[i] = "/" THEN i
    ELSE FirstSlash(s, i + 1)

\* str.split('/'): one more part than there are slashes, parts may be empty.
RECURSIVE Split(_)
Split(s) ==
    LET i == FirstSlash(s, 1)
    IN  IF i = 0 THEN <<s>>
        ELSE <<SubSeq(s, 1, i - 1)>> \o Split(SubSeq(s, i + 1, Len(s)))

\* Formatting of a value inside an f-string: None prints as the text None.
Format(o) == IF o = None THEN <<"None">> ELSE o[1]

\* ----------------------------------------------------- move_collection.py
LogEntry(level, text) == [level |-> level, text |-> text]

Failure(error, rows) ==
    [exit |-> 1, error |-> error, logs |-> <<LogEntry("error", error)>>,
     report |-> None, results |-> <<>>, rows |-> rows]

\* The ValueError raised for len(rows) != 1, named as the error taxonomy does.
CountError(n) == IF n = 0 THEN "NotFound" ELSE "Ambiguous"

SelectByName(rows, name) == SelectSeq(rows, LAMBDA r : r.name = name)

\* Mutant: the flag is read the wrong way round.
is_default_inverted(c) == c.isDefault # None /\ c.isDefault[1] = 0

\* is_default is not None and is_default == 1
is_default(c) == c.isDefault # None /\ c.isDefault[1] = 1

genealogy_parts(collection_genealogy) ==
    IF TruthyText(collection_genealogy) THEN Split(collection_genealogy[1]) ELSE <<>>

new_genealogy(collection_genealogy, service_genealogy) ==
    LET parts == genealogy_parts(collection_genealogy)
    IN  IF parts # <<>>
        THEN Some(Format(service_genealogy) \o <<"/">> \o parts[Len(parts)])
        ELSE service_genealogy

\* Mutant: the UPDATE sets parent and leaves genealogy as it was.
UpdateCollection_parent_only(rows, collection_id, service_id, genealogy) ==
    [i \in 1..Len(rows) |->
        IF rows[i].id = collection_id
        THEN [rows[i] EXCEPT !.parent = Some(service_id)]
        ELSE rows[i]]

\* Mutant: the UPDATE binds the collection's id where the service's id belongs.
UpdateCollection_own_id(rows, collection_id, service_id, genealogy) ==
    [i \in 1..Len(rows) |->
        IF rows[i].id = collection_id
        THEN [rows[i] EXCEPT !.parent = Some(collection_id), !.genealogy = genealogy]
        ELSE rows[i]]

\* UPDATE ... SET parent = ?, genealogy = ? WHERE id_local = ?
UpdateCollection(rows, collection_id, service_id, genealogy) ==
    [i \in 1..Len(rows) |->
        IF rows[i].id = collection_id
        THEN [rows[i] EXCEPT !.parent = Some(service_id), !.genealogy = genealogy]
        ELSE rows[i]]

move_collection(rows, collection_name, target_publish_service, dry_run) ==
    LET found == SelectByName(rows, collection_name)
    IN  IF Len(found) # 1 THEN Failure(CountError(Len(found)), rows)
        ELSE
        LET c == found[1]
        IN  IF is_default(c) THEN Failure("ProtectedNode", rows)
            ELSE
            LET services == SelectByName(rows, target_publish_service)
            IN  IF Len(services) # 1 THEN Failure(CountError(Len(services)), rows)
                ELSE
                LET s  == services[1]
                    ng == new_genealogy(c.genealogy, s.genealogy)
                    rp == [current |-> c.genealogy, newParent |-> s.genealogy,
                           newGenealogy |-> ng]
                    prep == <<LogEntry("info", "Preparing"), LogEntry("info", "Current parent"),
                              LogEntry("info", "New parent"), LogEntry("info", "New genealogy")>>
                IN  IF dry_run
                    THEN [exit |-> 0, error |-> "none",
                          logs |-> Append(prep, LogEntry("info", "Dry run")),
                          report |-> Some(rp), results |-> <<>>, rows |-> rows]
                    ELSE [exit |-> 0, error |-> "none",
                          logs |-> Append(prep, LogEntry("info", "Changes applied")),
                          report |-> Some(rp), results |-> <<>>,
                          rows |-> UpdateCollection(rows, c.id, s.id, ng)]

\* ----------------------------------------------------- library_folders.py
\* os.path.exists: the empty path never exists.
path_exists(files, path) == path # "" /\ path \in files

\* The exception validate_arguments raises, or "none".
validate_arguments(files, new_path, missing_only) ==
    IF Truthy(new_path) /\ ~path_exists(files, new_path[1]) THEN "InvalidTarget"
    ELSE IF missing_only /\ Truthy(new_path) THEN "ArgumentConflict"
    ELSE "none"

\* The WHERE clause is added only for a true library_name.
fetch_libraries(rows, library_name) ==
    IF Truthy(library_name) THEN SelectByName(rows, library_name[1]) ELSE rows

RECURSIVE ListFrom(_, _, _, _)
ListFrom(files, libraries, missing_only, i) ==
    IF i > Len(libraries) THEN <<>>
    ELSE LET r      == libraries[i]
             exists == path_exists(files, r.absolutePath)
             rest   == ListFrom(files, libraries, missing_only, i + 1)
         IN  IF missing_only /\ exists THEN rest
             ELSE <<[name |-> r.name, absolutePath |-> r.absolutePath,
                     relativePath |-> r.relativePath, exists |-> exists]>> \o rest

list_libraries(files, rows, library_name, missing_only) ==
    ListFrom(files, fetch_libraries(rows, library_name), missing_only, 1)

\* The messages of display_library_results, all of level info.
display_library_results(libraries, missing_only) ==
    <<LogEntry("info", "Libraries")>>
    \o [i \in 1..Len(libraries) |-> LogEntry("info", "line")]
    \o (IF ~missing_only /\ \E i \in 1..Len(libraries) : ~libraries[i].exists
        THEN <<LogEntry("info", "* indicates missing directories")>> ELSE <<>>)

\* Mutant: the UPDATE is executed in a dry run too.
update_library_path_always(rows, library_id, new_path, dry_run) ==
    [i \in 1..Len(rows) |->
        IF rows[i].id = library_id
        THEN [rows[i] EXCEPT !.absolutePath = new_path]
        ELSE rows[i]]

\* The rows after update_library_path.
update_library_path(rows, library_id, new_path, dry_run) ==
    IF dry_run THEN rows
    ELSE [i \in 1..Len(rows) |->
            IF rows[i].id = library_id
            THEN [rows[i] EXCEPT !.absolutePath = new_path]
            ELSE rows[i]]

update_message(dry_run) == IF dry_run THEN "Dry run: Would update" ELSE "Updated"

Listing(files, rows, library_name, missing_only) ==
    LET libraries == list_libraries(files, rows, library_name, missing_only)
    IN  [exit |-> 0, error |-> "none",
         logs |-> display_library_results(libraries, missing_only),
         report |-> None, results |-> libraries, rows |-> rows]

manage_library_folder(files, rows, library_name, new_path, missing_only, dry_run) ==
    LET invalid == validate_arguments(files, new_path, missing_only)
    IN  IF invalid # "none" THEN Failure(invalid, rows)
        ELSE IF library_name = None /\ new_path = None
        THEN Listing(files, rows, None, missing_only)
        ELSE
        LET libraries == fetch_libraries(rows, library_name)
        IN  IF libraries = <<>> THEN Failure("NotFound", rows)
            ELSE IF new_path = None
            THEN Listing(files, rows, library_name, missing_only)
            ELSE IF Len(libraries) > 1 THEN Failure("Ambiguous", rows)
            ELSE
            LET lib == libraries[1]
            IN  [exit |-> 0, error |-> "none",
                 logs |-> <<LogEntry("info", "Changing absolute path"),
                            LogEntry("info", update_message(dry_run))>>,
                 report |-> Some([id |-> lib.id, old |-> lib.absolutePath, new |-> new_path[1]]),
                 results |-> <<>>,
                 rows |-> update_library_path(rows, lib.id, new_path[1], dry_run)]

\* ------------------------------------------------------- initial catalogs
\* AgLibraryRootFolder: up to three rows in retrieval order.
FolderNames == {<<>>, <<"A">>, <<"A", "B", "B">>, <<"B", "A", "C">>}

FolderPaths == {<<"/mnt/a", "/mnt/missing", "/mnt/a">>,
                <<"/mnt/missing", "/mnt/a", "/mnt/missing">>}

FolderRelativePaths == {<<Some("rel"), None, Some("")>>,
                        <<None, Some(""), Some("rel")>>,
                        <<Some(""), Some("rel"), None>>}

InitRootFolders ==
    { [i \in 1..Len(ns) |-> [id |-> i, name |-> ns[i], absolutePath |-> ps[i],
                             relativePath |-> rs[i]]] :
        ns \in FolderNames, ps \in FolderPaths, rs \in FolderRelativePaths }

\* The directories that exist while the scripts run.
Filesystem == {"/mnt/a", "/mnt/b"}

\* AgLibraryPublishedCollection: three rows whose genealogy is the chain of
\* ids from the root, as Lightroom writes it; a root without children may
\* also have an empty or a NULL genealogy.
Ids == {1, 2, 3}

Digit == <<"1", "2", "3", "4">>

Shapes == {<<None, Some(1), Some(2)>>, <<None, None, None>>, <<None, Some(1), None>>}

CollectionNames == {<<"A", "B", "C">>, <<"A", "B", "B">>}

CollectionDefaults == {<<None, Some(0), Some(1)>>, <<Some(1), None, Some(0)>>}

RECURSIVE Chain(_, _)
Chain(shape, id) ==
    IF shape[id] = None THEN <<Digit[id]>>
    ELSE Chain(shape, shape[id][1]) \o <<"/", Digit[id]>>

Isolated(shape, id) == shape[id] = None /\ \A j \in Ids : shape[j] # Some(id)

InitGenealogy(shape, bare, id) ==
    IF Isolated(shape, id) /\ bare = "empty" THEN Some(<<>>)
    ELSE IF Isolated(shape, id) /\ bare = "absent" THEN None
    ELSE Some(Chain(shape, id))

InitCollections ==
    { [i \in 1..3 |-> [id |-> i, name |-> ns[i], isDefault |-> ds[i], parent |-> sh[i],
                       genealogy |-> InitGenealogy(sh, bare, i)]] :
        sh \in Shapes, ns \in CollectionNames, ds \in CollectionDefaults,
        bare \in {"chain", "empty", "absent"} }

NoCall == [tool |-> "none", name |-> None, target |-> None,
           missing_only |-> FALSE, dry_run |-> FALSE]

NoOutcome == [exit |-> 0, error |-> "none", logs |-> <<>>, report |-> None, results |-> <<>>]

Observed(r) == [exit |-> r.exit, error |-> r.error, logs |-> r.logs,
                report |-> r.report, results |-> r.results]

\* The catalog each script is pointed at when the other script is the one
\* under study.
QuietRootFolders ==
    <<[id |-> 1, name |-> "A", absolutePath |-> "/mnt/missing", relativePath |-> Some("rel")],
      [id |-> 2, name |-> "B", absolutePath |-> "/mnt/a", relativePath |-> None],
      [id |-> 3, name |-> "B", absolutePath |-> "/mnt/b", relativePath |-> Some("")]>>

QuietShape == <<None, Some(1), None, Some(3)>>

QuietCollections ==
    [i \in 1..4 |-> [id |-> i, name |-> <<"A", "B", "C", "C">>[i],
                     isDefault |-> <<Some(0), Some(1), None, None>>[i],
                     parent |-> QuietShape[i],
                     genealogy |-> Some(Chain(QuietShape, i))]]

InitRest ==
    /\ fs = Filesystem
    /\ call = NoCall
    /\ outcome = NoOutcome
    /\ preRootFolders = rootFolders
    /\ preCollections = collections

\* library_folders.py on every initial AgLibraryRootFolder table.
FolderInit ==
    /\ rootFolders \in InitRootFolders
    /\ collections = QuietCollections
    /\ InitRest

\* move_collection.py on every initial AgLibraryPublishedCollection table.
MoveInit ==
    /\ rootFolders = QuietRootFolders
    /\ collections \in InitCollections
    /\ InitRest

\* move_collection.py on the initial tables in which every genealogy is a
\* text, possibly the empty one.
MoveTextInit ==
    /\ rootFolders = QuietRootFolders
    /\ collections \in {c \in InitCollections : \A i \in 1..Len(c) : c[i].genealogy # None}
    /\ InitRest

\* Both scripts on one catalog file.
Init ==
    /\ rootFolders = QuietRootFolders
    /\ collections = QuietCollections
    /\ InitRest

\* ---------------------------------------------------------------- actions
LibraryNameArgs == {None, Some(""), Some("A"), Some("B"), Some("Z")}

NewPathArgs == {None, Some(""), Some("/mnt/a"), Some("/mnt/b"), Some("/mnt/missing")}

CollectionNameArgs == {"", "A", "B", "C"}

\* One run of library_folders.py.  new_path is the positional argument after
\* library_name, so it is given only when library_name is.
ManageLibraryFolder ==
    \E library_name \in LibraryNameArgs, new_path \in NewPathArgs,
       missing_only \in BOOLEAN, dry_run \in BOOLEAN :
        /\ library_name = None => new_path = None
        /\ LET r == manage_library_folder(fs, rootFolders, library_name, new_path,
                                          missing_only, dry_run)
           IN  /\ rootFolders' = r.rows
               /\ outcome' = Observed(r)
        /\ call' = [tool |-> "library_folders", name |-> library_name, target |-> new_path,
                    missing_only |-> missing_only, dry_run |-> dry_run]
        /\ preRootFolders' = rootFolders
        /\ preCollections' = collections
        /\ UNCHANGED <<collections, fs>>

\* One run of move_collection.py.
MoveCollection ==
    \E collection_name \in CollectionNameArgs, target_publish_service \in CollectionNameArgs,
       dry_run \in BOOLEAN :
        /\ LET r == move_collection(collections, collection_name, target_publish_service, dry_run)
           IN  /\ \A i \in 1..Len(r.rows) :
                     r.rows[i].genealogy # None => Len(r.rows[i].genealogy[1]) <= MaxGenealogyLen
               /\ collections' = r.rows
               /\ outcome' = Observed(r)
        /\ call' = [tool |-> "move_collection", name |-> Some(collection_name),
                    target |-> Some(target_publish_service),
                    missing_only |-> FALSE, dry_run |-> dry_run]
        /\ preRootFolders' = rootFolders
        /\ preCollections' = collections
        /\ UNCHANGED <<rootFolders, fs>>

Next == ManageLibraryFolder \/ MoveCollection

Spec == Init /\ [][Next]_vars

FolderSpec == FolderInit /\ [][ManageLibraryFolder]_vars

MoveSpec == MoveInit /\ [][MoveCollection]_vars

MoveTextSpec == MoveTextInit /\ [][MoveCollection]_vars

\* ------------------------------------------------------- reading a state
\* The last run was rename(name, newPath, dryRun): library_folders.py with a
\* name and a new path.
IsRename == call.tool = "library_folders" /\ call.target # None

\* The last run was list(filterName, missingOnly).
IsList == call.tool = "library_folders" /\ call.target = None

IsMove == call.tool = "move_collection"

\* How many rows of a table carry the name.
Matches(rows, name) == Cardinality({i \in 1..Len(rows) : rows[i].name = name})

\* The row of a table with the name, when exactly one row has it.
TheRow(rows, name) == rows[CHOOSE i \in 1..Len(rows) : rows[i].name = name]

StoreUnchanged == rootFolders = preRootFolders /\ collections = preCollections

\* ------------------------------------------------------------------ claims
\* C1 (rename half): when rename reaches its name lookup (the new path
\* exists and --missing-only is off), zero matching rows end in NotFound and
\* two or more in Ambiguous, both leaving the store unchanged, and exactly
\* one matching row lets the run go on to the update and exit 0.
C1_RenameLookup ==
    (IsRename /\ ~call.missing_only /\ path_exists(fs, call.target[1])) =>
        LET n == Matches(preRootFolders, call.name[1])
        IN  /\ n = 0 => outcome.error = "NotFound" /\ outcome.exit = 1 /\ StoreUnchanged
            /\ n >= 2 => outcome.error = "Ambiguous" /\ outcome.exit = 1 /\ StoreUnchanged
            /\ n = 1 => outcome.exit = 0

\* C1 (move half): the same for the lookup of the moving node and, once the
\* moving node is found and is not protected, for the lookup of the target.
C1_MoveLookups ==
    IsMove =>
        LET n == Matches(preCollections, call.name[1])
            m == Matches(preCollections, call.target[1])
        IN  /\ n = 0 => outcome.error = "NotFound" /\ outcome.exit = 1 /\ StoreUnchanged
            /\ n >= 2 => outcome.error = "Ambiguous" /\ outcome.exit = 1 /\ StoreUnchanged
            /\ n = 1 => \/ outcome.error = "ProtectedNode"
                        \/ /\ m = 0 => outcome.error = "NotFound" /\ outcome.exit = 1
                                       /\ StoreUnchanged
                           /\ m >= 2 => outcome.error = "Ambiguous" /\ outcome.exit = 1
                                        /\ StoreUnchanged
                           /\ m = 1 => outcome.exit = 0

\* C1: a name lookup matching zero rows fails with NotFound, one matching
\* two or more rows fails with Ambiguous, one matching exactly one row
\* proceeds, for rename and for both lookups of move; the failing cases change
\* no row.
C1_NameLookup == C1_RenameLookup /\ C1_MoveLookups

\* C2: rename with a new path that does not exist on the filesystem fails
\* with InvalidTarget, exit code 1, and changes no absolutePath, whatever the
\* name matches and whatever dryRun is.
C2_InvalidTarget ==
    (IsRename /\ ~path_exists(fs, call.target[1])) =>
        /\ outcome.error = "InvalidTarget"
        /\ outcome.exit = 1
        /\ rootFolders = preRootFolders

\* The tuples list is to return for the rows named by the filter, in
\* retrieval order.
RECURSIVE ExpectedListing(_, _, _)
ExpectedListing(rows, filter, missing_only) ==
    IF rows = <<>> THEN <<>>
    ELSE LET r    == Head(rows)
             here == r.absolutePath \in fs
             keep == (filter = None \/ r.name = filter[1]) /\ ~(missing_only /\ here)
         IN  (IF keep THEN <<[name |-> r.name, absolutePath |-> r.absolutePath,
                              relativePath |-> r.relativePath, exists |-> here]>>
              ELSE <<>>)
             \o ExpectedListing(Tail(rows), filter, missing_only)

\* C8: list returns, in retrieval order, one tuple for each row the filter
\* names (every row without a filter), less the rows whose path exists under
\* missingOnly; it fails only when a given filter names no row, an empty
\* result is otherwise a success, and the store is unchanged.
C8_Listing ==
    IsList =>
        LET named == call.name # None /\ Matches(preRootFolders, call.name[1]) = 0
        IN  /\ StoreUnchanged
            /\ named => outcome.exit = 1
            /\ ~named => /\ outcome.exit = 0
                         /\ outcome.results =
                                ExpectedListing(preRootFolders, call.name, call.missing_only)

\* C9: a rename that passes validation warns (level warn, not error) about a
\* stale relative path exactly when the row's relativePath is non-empty, and
\* succeeds either way.
C9_RelativePathWarning ==
    (/\ IsRename /\ ~call.missing_only /\ path_exists(fs, call.target[1])
     /\ call.name # None /\ Matches(preRootFolders, call.name[1]) = 1) =>
        LET row    == TheRow(preRootFolders, call.name[1])
            warned == \E i \in 1..Len(outcome.logs) : outcome.logs[i].level = "warn"
        IN  /\ outcome.exit = 0
            /\ \A i \in 1..Len(outcome.logs) : outcome.logs[i].level # "error"
            /\ warned <=> Truthy(row.relativePath)

\* The outcome of the last run had it been started without --dry-run.
WithoutDryRun ==
    IF IsMove
    THEN move_collection(preCollections, call.name[1], call.target[1], FALSE)
    ELSE manage_library_folder(fs, preRootFolders, call.name, call.target,
                               call.missing_only, FALSE)

\* C3: a dry run of rename or move leaves every row of both tables as it
\* was, wherever validation stopped, and ends with the exit code, the error
\* and the reported before/after values of the same run without --dry-run.
C3_DryRun ==
    (call.tool # "none" /\ call.dry_run) =>
        /\ StoreUnchanged
        /\ outcome.exit = WithoutDryRun.exit
        /\ outcome.error = WithoutDryRun.error
        /\ outcome.report = WithoutDryRun.report

\* A dry-run rename that passed validation and would have changed the path.
C3_Witness ==
    /\ IsRename /\ call.dry_run /\ outcome.exit = 0
    /\ outcome.report # None
    /\ outcome.report[1].old # outcome.report[1].new
    /\ WithoutDryRun.rows # preRootFolders

\* A dry-run move that passed validation and would have changed the row.
C3_MoveWitness ==
    /\ IsMove /\ call.dry_run /\ outcome.exit = 0
    /\ WithoutDryRun.rows # preCollections

\* C4: a move whose collection name matches exactly one row, with isDefault
\* true, fails with ProtectedNode and changes nothing, whatever the target
\* name matches and whatever dryRun is.
C4_ProtectedNode ==
    (/\ IsMove /\ Matches(preCollections, call.name[1]) = 1
     /\ TheRow(preCollections, call.name[1]).isDefault = Some(1)) =>
        /\ outcome.error = "ProtectedNode"
        /\ outcome.exit = 1
        /\ StoreUnchanged

\* A protected node was refused although the target name is ambiguous.
C4_Witness ==
    /\ IsMove /\ ~call.dry_run
    /\ Matches(preCollections, call.name[1]) = 1
    /\ TheRow(preCollections, call.name[1]).isDefault = Some(1)
    /\ Matches(preCollections, call.target[1]) >= 2
    /\ outcome.error = "ProtectedNode"

\* The text after the last "/" of a text (the whole text without one).
RECURSIVE FinalSegment(_)
FinalSegment(s) ==
    IF s = <<>> \/ s[Len(s)] = "/" THEN <<>>
    ELSE Append(FinalSegment(SubSeq(s, 1, Len(s) - 1)), s[Len(s)])

\* C5: the genealogy a move computes is the target parent's genealogy, "/",
\* and the final segment of the moving node's genealogy; for a moving node
\* with an empty or absent genealogy it is the target parent's genealogy
\* itself.
C5_ComputedGenealogy ==
    (IsMove /\ outcome.exit = 0) =>
        LET g        == TheRow(preCollections, call.name[1]).genealogy
            t        == TheRow(preCollections, call.target[1]).genealogy
            computed == outcome.report[1].newGenealogy
        IN  IF g = None \/ g[1] = <<>>
            THEN computed = t
            ELSE t # None /\ computed = Some(t[1] \o <<"/">> \o FinalSegment(g[1]))

\* C6: a successful move without --dry-run leaves the table as it was except
\* for the moving row, whose parent is now the target's id and whose
\* genealogy is the computed one, both at once; id, name and isDefault of
\* that row, every other row and the number of rows are unchanged; no other
\* run of move changes a row.
C6_MoveEffect ==
    IsMove =>
        IF ~call.dry_run /\ outcome.exit = 0
        THEN LET c == TheRow(preCollections, call.name[1])
                 t == TheRow(preCollections, call.target[1])
             IN  /\ Len(collections) = Len(preCollections)
                 /\ \A i \in 1..Len(collections) :
                        collections[i] =
                            IF preCollections[i].id = c.id
                            THEN [id |-> c.id, name |-> c.name, isDefault |-> c.isDefault,
                                  parent |-> Some(t.id),
                                  genealogy |-> outcome.report[1].newGenealogy]
                            ELSE preCollections[i]
        ELSE collections = preCollections

\* The row with genealogy "1/2" and parent 1 was moved under the row with id
\* 3 and genealogy "3": its parent is 3 and its genealogy "3/2".
C6_Witness ==
    /\ IsMove /\ ~call.dry_run /\ outcome.exit = 0
    /\ \E i \in 1..Len(collections) :
        /\ preCollections[i].parent = Some(1)
        /\ preCollections[i].genealogy = Some(<<"1", "/", "2">>)
        /\ collections[i].parent = Some(3)
        /\ collections[i].genealogy = Some(<<"3", "/", "2">>)
        /\ TheRow(preCollections, call.target[1]).genealogy = Some(<<"3">>)

\* The row of a table with the id.
RowById(rows, id) == rows[CHOOSE i \in 1..Len(rows) : rows[i].id = id]

\* A node keeps materialized-path integrity when its genealogy, if it has
\* one, ends in the node's own segment (its id) and, for a node with a
\* parent, has as second-to-last segment the final segment of the parent's
\* genealogy.
Integrity(rows, n) ==
    TruthyText(n.genealogy) =>
        LET parts == Split(n.genealogy[1])
        IN  /\ parts[Len(parts)] = <<Digit[n.id]>>
            /\ n.parent # None =>
                /\ Len(parts) >= 2
                /\ \E i \in 1..Len(rows) :
                    /\ rows[i].id = n.parent[1]
                    /\ rows[i].genealogy # None
                    /\ parts[Len(parts) - 1] = FinalSegment(rows[i].genealogy[1])

\* C7: from a catalog in which every node keeps materialized-path integrity,
\* every node keeps it after any sequence of moves.
C7_Integrity == \A i \in 1..Len(collections) : Integrity(collections, collections[i])

\* Following parent ids from the row with id from, in at least one and at
\* most fuel steps, reaches the row with id to.
RECURSIVE Reaches(_, _, _, _)
Reaches(rows, from, to, fuel) ==
    /\ fuel > 0
    /\ \E i \in 1..Len(rows) :
        /\ rows[i].id = from
        /\ rows[i].parent # None
        /\ \/ rows[i].parent[1] = to
           \/ Reaches(rows, rows[i].parent[1], to, fuel - 1)

Descends(rows, from, to) == Reaches(rows, from, to, Len(rows))

\* C10: a move without --dry-run of a node that is not protected under one
\* of its own descendants, both names matching exactly one row, succeeds and
\* stores the descendant's id as the node's parent.
C10_NoCycleCheck ==
    (/\ IsMove /\ ~call.dry_run
     /\ Matches(preCollections, call.name[1]) = 1
     /\ Matches(preCollections, call.target[1]) = 1
     /\ TheRow(preCollections, call.name[1]).isDefault # Some(1)
     /\ Descends(preCollections, TheRow(preCollections, call.target[1]).id,
                 TheRow(preCollections, call.name[1]).id)) =>
        /\ outcome.exit = 0
        /\ RowById(collections, TheRow(preCollections, call.name[1]).id).parent
               = Some(TheRow(preCollections, call.target[1]).id)

\* A node was moved under its descendant and its parent chain now returns
\* to it.
C10_Witness ==
    /\ IsMove /\ ~call.dry_run /\ outcome.exit = 0
    /\ call.name # call.target
    /\ Matches(preCollections, call.name[1]) = 1
    /\ Matches(preCollections, call.target[1]) = 1
    /\ LET c == TheRow(preCollections, call.name[1])
           t == TheRow(preCollections, call.target[1])
       IN  /\ Descends(preCollections, t.id, c.id)
           /\ ~Descends(preCollections, c.id, c.id)
           /\ Descends(collections, c.id, c.id)

====
